---- MODULE Spec2Model ----
(***************************************************************************)
(* Model of the DiffViewer component (src/src/artifact-component.tsx):     *)
(* the five pieces of React state, the asynchronous ZIP handlers, the      *)
(* student navigation and the diff effect.                                 *)
(*                                                                         *)
(* Strings the code inspects character by character (archive entry paths,  *)
(* file names, student names) are sequences of one-character strings.      *)
(* File contents are only compared with each other and with '', so they    *)
(* are TLA+ strings.  A JavaScript object used as a map is a sequence of   *)
(* <<key, value>> pairs with distinct keys, in insertion order (the order  *)
(* Object.keys / Object.entries enumerate non-integer keys).               *)
(***************************************************************************)
EXTENDS Integers, Sequences, FiniteSets, Bags, TLC

VARIABLES starterFiles, allSubmissions, currentStudent, diffs, error,
          tasks, effectPending, lastOp

vars == <<starterFiles, allSubmissions, currentStudent, diffs, error,
          tasks, effectPending, lastOp>>

(***************************************************************************)
(* Bounds of the model.                                                    *)
(***************************************************************************)
MaxInFlight == 2
MaxEntries == 3
MaxKeys == 3

(***************************************************************************)
(* String literals of the program.                                         *)
(***************************************************************************)
PY == <<".", "p", "y">>
ZIP == <<".", "z", "i", "p">>
MACOSX == <<"_", "_", "M", "A", "C", "O", "S", "X", "/">>
MARKER == <<"_", "a", "s", "s", "i", "g", "n", "s", "u", "b", "m", "i", "s",
            "s", "i", "o", "n", "_", "f", "i", "l", "e", "/">>
ONLINETEXT == <<"_", "o", "n", "l", "i", "n", "e", "t", "e", "x", "t">>
ZipMime == "application/zip"
DropMessage == <<"Please drop a ZIP file">>
ZipErrorPrefix == "Error processing ZIP file: "
SubmissionsErrorPrefix == "Error processing submissions ZIP: "

(***************************************************************************)
(* String.prototype methods, on sequences of characters.                   *)
(***************************************************************************)
StartsWith(s, p) == Len(s) >= Len(p) /\ SubSeq(s, 1, Len(p)) = p

EndsWith(s, p) == Len(s) >= Len(p) /\ SubSeq(s, Len(s) - Len(p) + 1, Len(s)) = p

Includes(s, p) == \E i \in 1..(Len(s) - Len(p) + 1) : SubSeq(s, i, i + Len(p) - 1) = p

\* path.split('/').pop(): what follows the last '/', the whole string without one
SplitPop(s) ==
  LET slashes == {i \in 1..Len(s) : s[i] = "/"}
      last == IF slashes = {} THEN 0 ELSE CHOOSE i \in slashes : \A j \in slashes : j <= i
  IN SubSeq(s, last + 1, Len(s))

\* a variant that keeps the folders of the path
NormalizedPathKeepsFolders(path) == path

\* path.split('/').pop() || path
NormalizedPath(path) == IF SplitPop(path) # <<>> THEN SplitPop(path) ELSE path

\* path.split('_')[0]: what precedes the first '_', the whole string without one
StudentName(path) ==
  LET unders == {i \in 1..Len(path) : path[i] = "_"}
      first == IF unders = {} THEN Len(path) + 1
               ELSE CHOOSE i \in unders : \A j \in unders : i <= j
  IN SubSeq(path, 1, first - 1)

(***************************************************************************)
(* Objects used as maps.                                                   *)
(***************************************************************************)
EmptyObject == <<>>

ObjectKeys(obj) == [i \in 1..Len(obj) |-> obj[i][1]]

KeySet(obj) == {obj[i][1] : i \in 1..Len(obj)}

HasKey(obj, k) == \E i \in 1..Len(obj) : obj[i][1] = k

\* obj[k] for a key the object has
Lookup(obj, k) == obj[CHOOSE i \in 1..Len(obj) : obj[i][1] = k][2]

\* obj[k] = v: an existing key keeps its place, a new key goes last
Assign(obj, k, v) ==
  IF HasKey(obj, k)
  THEN [i \in 1..Len(obj) |-> IF obj[i][1] = k THEN <<k, v>> ELSE obj[i]]
  ELSE Append(obj, <<k, v>>)

\* { ...a, ...b }
RECURSIVE ObjectSpread(_, _)
ObjectSpread(a, b) ==
  IF b = <<>> THEN a
  ELSE ObjectSpread(Assign(a, Head(b)[1], Head(b)[2]), Tail(b))

\* array.indexOf(x), 0-based, -1 when absent
IndexOf(arr, x) ==
  IF \E i \in 1..Len(arr) : arr[i] = x
  THEN (CHOOSE i \in 1..Len(arr) : arr[i] = x /\ \A j \in 1..(i - 1) : arr[j] # x) - 1
  ELSE -1

(***************************************************************************)
(* Inputs.  A dropped file is [present, type, name, zip]; present is FALSE *)
(* when the drop carries no file (dataTransfer.files[0] is undefined).     *)
(* Its zip is what JSZip.loadAsync makes of the bytes: [corrupt, files],   *)
(* corrupt when loadAsync rejects, files the entries of contents.files in  *)
(* enumeration order.  An entry is [path, dir, bad, content, inner]: bad   *)
(* when zipEntry.async rejects, content its text, inner the zip its bytes  *)
(* hold (read only when the entry is a nested .zip).                       *)
(***************************************************************************)
NoZip == [corrupt |-> FALSE, files |-> <<>>]

Entry(path, content) ==
  [path |-> path, dir |-> FALSE, bad |-> FALSE, content |-> content, inner |-> NoZip]

BadEntry(path) ==
  [path |-> path, dir |-> FALSE, bad |-> TRUE, content |-> "", inner |-> NoZip]

DirEntry(path) ==
  [path |-> path, dir |-> TRUE, bad |-> FALSE, content |-> "", inner |-> NoZip]

ZipEntry(path, inner) ==
  [path |-> path, dir |-> FALSE, bad |-> FALSE, content |-> "", inner |-> inner]

Zip(files) == [corrupt |-> FALSE, files |-> files]

CorruptZip == [corrupt |-> TRUE, files |-> <<>>]

File(type, name, zip) == [present |-> TRUE, type |-> type, name |-> name, zip |-> zip]

NoFile == [present |-> FALSE, type |-> "", name |-> <<>>, zip |-> NoZip]

(***************************************************************************)
(* currentStudent is a string, null (the initial state) or undefined       *)
(* (Object.keys(submissions)[0] of an empty table).                        *)
(***************************************************************************)
Null == [tag |-> "null", name |-> <<>>]

Undefined == [tag |-> "undefined", name |-> <<>>]

Str(s) == [tag |-> "string", name |-> s]

\* the truthiness of a value of currentStudent
Truthy(v) == v.tag = "string" /\ v.name # <<>>

(***************************************************************************)
(* processZipFile, from one await to the next.  An outcome says where the  *)
(* function stops: at the await of entry i, at its end with the files to   *)
(* install, or in its catch block with err.message.                        *)
(***************************************************************************)
Await(i, files) == [kind |-> "await", i |-> i, files |-> files, message |-> ""]

Done(files) == [kind |-> "done", i |-> 0, files |-> files, message |-> ""]

Throw(message) == [kind |-> "throw", i |-> 0, files |-> <<>>, message |-> message]

\* err.message: the text JSZip gives its errors, which the component only shows
ErrMessage == "err.message"

\* the filter of lines 25-27 and line 53
IsPythonSource(path, dir) ==
  ~dir /\ ~StartsWith(path, MACOSX) /\ EndsWith(path, PY)

\* a variant that goes on from the files of the previous upload
NewFilesFromState == starterFiles

\* const files = {}
NewFiles == EmptyObject

\* the for loop of processZipFile from entry `from` on, up to the next await
ZipLoop(entries, from, files) ==
  LET kept == {j \in from..Len(entries) : IsPythonSource(entries[j].path, entries[j].dir)}
  IN IF kept = {} THEN Done(files)
     ELSE Await(CHOOSE j \in kept : \A h \in kept : j <= h, files)

\* zip.loadAsync(file) has settled
ZipLoaded(t) ==
  IF t.file.zip.corrupt THEN Throw(ErrMessage)
  ELSE ZipLoop(t.file.zip.files, 1, NewFiles)

\* a variant that skips an entry it cannot decode
ZipEntryReadSkipsBad(t) ==
  LET e == t.file.zip.files[t.i]
  IN ZipLoop(t.file.zip.files, t.i + 1,
             IF e.bad THEN t.files
             ELSE Assign(t.files, NormalizedPath(e.path), e.content))

\* zipEntry.async('string') of entry t.i has settled
ZipEntryRead(t) ==
  LET e == t.file.zip.files[t.i]
  IN IF e.bad THEN Throw(ErrMessage)
     ELSE ZipLoop(t.file.zip.files, t.i + 1,
                  Assign(t.files, NormalizedPath(e.path), e.content))

(***************************************************************************)
(* processStudentSubmission: the files of one entry of the submissions     *)
(* zip, or the exception it throws.                                        *)
(***************************************************************************)
RECURSIVE InnerLoop(_, _, _)
InnerLoop(entries, i, files) ==
  IF i > Len(entries) THEN Done(files)
  ELSE IF IsPythonSource(entries[i].path, entries[i].dir)
       THEN IF entries[i].bad THEN Throw(ErrMessage)
            ELSE InnerLoop(entries, i + 1,
                           Assign(files, NormalizedPath(entries[i].path), entries[i].content))
       ELSE InnerLoop(entries, i + 1, files)

processStudentSubmission(zipEntry) ==
  IF EndsWith(zipEntry.path, ZIP)
  THEN IF zipEntry.bad THEN Throw(ErrMessage)
       ELSE IF zipEntry.inner.corrupt THEN Throw(ErrMessage)
       ELSE InnerLoop(zipEntry.inner.files, 1, EmptyObject)
  ELSE IF EndsWith(zipEntry.path, PY)
       THEN IF zipEntry.bad THEN Throw(ErrMessage)
            ELSE Done(Assign(EmptyObject, NormalizedPath(zipEntry.path), zipEntry.content))
       ELSE Done(EmptyObject)

(***************************************************************************)
(* processSubmissionsZip, from one await to the next.                      *)
(***************************************************************************)
\* line 77
IsSubmissionPath(path) == Includes(path, MARKER) /\ ~Includes(path, ONLINETEXT)

\* const submissions = {}
NewSubmissions == EmptyObject

\* lines 82-84
EnsureStudent(submissions, studentName) ==
  IF ~HasKey(submissions, studentName)
  THEN Assign(submissions, studentName, EmptyObject)
  ELSE submissions

\* a variant that replaces the files of the student instead of merging
MergeStudentFilesReplaces(submissions, studentName, studentFiles) ==
  Assign(submissions, studentName, studentFiles)

\* line 88
MergeStudentFiles(submissions, studentName, studentFiles) ==
  Assign(submissions, studentName,
         ObjectSpread(Lookup(submissions, studentName), studentFiles))

\* the for loop of processSubmissionsZip from entry i on, up to the next await
RECURSIVE SubmissionsLoop(_, _, _)
SubmissionsLoop(entries, i, submissions) ==
  IF i > Len(entries) THEN Done(submissions)
  ELSE LET path == entries[i].path
       IN IF IsSubmissionPath(path) /\ ~entries[i].dir
          THEN LET ensured == EnsureStudent(submissions, StudentName(path))
               IN IF EndsWith(path, PY) \/ EndsWith(path, ZIP)
                  THEN Await(i, ensured)
                  ELSE SubmissionsLoop(entries, i + 1, ensured)
          ELSE SubmissionsLoop(entries, i + 1, submissions)

\* zip.loadAsync(file) has settled
SubmissionsLoaded(t) ==
  IF t.file.zip.corrupt THEN Throw(ErrMessage)
  ELSE SubmissionsLoop(t.file.zip.files, 1, NewSubmissions)

\* await processStudentSubmission(zipEntry) of entry t.i has settled
SubmissionRead(t) ==
  LET e == t.file.zip.files[t.i]
      studentFiles == processStudentSubmission(e)
  IN IF studentFiles.kind = "throw" THEN Throw(studentFiles.message)
     ELSE SubmissionsLoop(t.file.zip.files, t.i + 1,
                          MergeStudentFiles(t.files, StudentName(e.path), studentFiles.files))

(***************************************************************************)
(* generateDiffs.  Diff.createPatch and Diff.structuredPatch belong to the *)
(* diff library; a FileDiff keeps the two texts handed to them as patch.   *)
(***************************************************************************)
\* a variant that keeps a path of both file sets twice
SetOfKeepsDuplicates(arr, set) == set \o arr

\* new Set([...a, ...b]): the distinct elements, in order of first occurrence
RECURSIVE SetOf(_, _)
SetOf(arr, set) ==
  IF arr = <<>> THEN set
  ELSE SetOf(Tail(arr), IF \E i \in 1..Len(set) : set[i] = Head(arr)
                        THEN set ELSE Append(set, Head(arr)))

\* files[path] || ''
ContentOrEmpty(files, path) ==
  IF HasKey(files, path) /\ Lookup(files, path) # "" THEN Lookup(files, path) ELSE ""

\* a variant without the "removed" branch
StatusWithoutRemoved(starterContent, submissionContent) ==
  IF starterContent = "" THEN "added" ELSE "modified"

\* lines 148-150
Status(starterContent, submissionContent) ==
  IF starterContent = "" THEN "added"
  ELSE IF submissionContent = "" THEN "removed"
  ELSE "modified"

RECURSIVE DiffLoop(_, _, _, _)
DiffLoop(allPaths, starter, submissionFiles, diffResults) ==
  IF allPaths = <<>> THEN diffResults
  ELSE LET path == Head(allPaths)
           starterContent == ContentOrEmpty(starter, path)
           submissionContent == ContentOrEmpty(submissionFiles, path)
       IN DiffLoop(Tail(allPaths), starter, submissionFiles,
                   IF starterContent # submissionContent
                   THEN Append(diffResults,
                               [path |-> path,
                                status |-> Status(starterContent, submissionContent),
                                patch |-> <<starterContent, submissionContent>>])
                   ELSE diffResults)

\* allSubmissions[currentStudent] || {}
SubmissionFiles(submissions, student) ==
  IF HasKey(submissions, student.name) THEN Lookup(submissions, student.name)
  ELSE EmptyObject

\* the value generateDiffs leaves in diffs
generateDiffs(starter, submissions, student, old) ==
  IF ~Truthy(student) THEN old
  ELSE LET submissionFiles == SubmissionFiles(submissions, student)
       IN DiffLoop(SetOf(ObjectKeys(starter) \o ObjectKeys(submissionFiles), <<>>),
                   starter, submissionFiles, <<>>)

(***************************************************************************)
(* The component.  tasks is the bag of the calls of processZipFile and     *)
(* processSubmissionsZip that are suspended at an await:                   *)
(* [isStarter, file, pc, i, files], pc "load" at zip.loadAsync and "entry" *)
(* at the await of entry i, files the call's local files / submissions.    *)
(* effectPending: a render whose [starterFiles, currentStudent] changed    *)
(* has committed and its effect has not run yet.  React runs a pending     *)
(* effect before it handles the next update, so the handlers wait for it.  *)
(* lastOp records the handler step that produced the state: the handler,   *)
(* the file it was given and, for the two zip handlers, where the step     *)
(* stopped ("await", "throw" or "done").                                   *)
(***************************************************************************)
Op(op, file, out) == [op |-> op, file |-> file, out |-> out]

\* the handler a suspended call belongs to
HandlerOf(t) == IF t.isStarter THEN "processZipFile" ELSE "processSubmissionsZip"

Task(file, isStarter) ==
  [isStarter |-> isStarter, file |-> file, pc |-> "load", i |-> 0, files |-> <<>>]

Suspend(t, out) ==
  /\ tasks' = (tasks (-) SetToBag({t}))
                 (+) SetToBag({[t EXCEPT !.pc = "entry", !.i = out.i, !.files = out.files]})
  /\ lastOp' = Op(HandlerOf(t), t.file, "await")
  /\ UNCHANGED <<starterFiles, allSubmissions, currentStudent, diffs, error, effectPending>>

\* the catch blocks: setError(prefix + err.message)
Catch(t, prefix, message) ==
  /\ error' = <<prefix, message>>
  /\ tasks' = tasks (-) SetToBag({t})
  /\ lastOp' = Op(HandlerOf(t), t.file, "throw")
  /\ UNCHANGED <<starterFiles, allSubmissions, currentStudent, diffs, effectPending>>

\* a variant that clears the error on a successful upload
InstallStarterClearsError(t, files) ==
  /\ starterFiles' = files
  /\ error' = <<>>
  /\ effectPending' = TRUE
  /\ tasks' = tasks (-) SetToBag({t})
  /\ lastOp' = Op(HandlerOf(t), t.file, "done")
  /\ UNCHANGED <<allSubmissions, currentStudent, diffs>>

\* lines 35-37; a new object is a changed dependency of the effect
InstallStarter(t, files) ==
  /\ starterFiles' = IF t.isStarter THEN files ELSE starterFiles
  /\ effectPending' = t.isStarter
  /\ tasks' = tasks (-) SetToBag({t})
  /\ lastOp' = Op(HandlerOf(t), t.file, "done")
  /\ UNCHANGED <<allSubmissions, currentStudent, diffs, error>>

\* Object.keys(submissions)[0]
FirstStudent(submissions) ==
  IF Len(submissions) > 0 THEN Str(ObjectKeys(submissions)[1]) ELSE Undefined

\* lines 94-96
InstallSubmissions(t, submissions) ==
  /\ allSubmissions' = submissions
  /\ currentStudent' = FirstStudent(submissions)
  /\ effectPending' = (currentStudent' # currentStudent)
  /\ tasks' = tasks (-) SetToBag({t})
  /\ lastOp' = Op(HandlerOf(t), t.file, "done")
  /\ UNCHANGED <<starterFiles, diffs, error>>

\* file?.type === 'application/zip' || file?.name.endsWith('.zip')
IsZipFile(file) == file.present /\ (file.type = ZipMime \/ EndsWith(file.name, ZIP))

handleDrop(file, isStarter) ==
  /\ ~effectPending
  /\ IF IsZipFile(file)
     THEN /\ BagCardinality(tasks) < MaxInFlight
          /\ tasks' = tasks (+) SetToBag({Task(file, isStarter)})
          /\ UNCHANGED error
     ELSE /\ error' = DropMessage
          /\ UNCHANGED tasks
  /\ lastOp' = Op("handleDrop", file, "")
  /\ UNCHANGED <<starterFiles, allSubmissions, currentStudent, diffs, effectPending>>

\* the suspended call t of processZipFile resumes
processZipFile(t) ==
  /\ ~effectPending
  /\ t \in BagToSet(tasks)
  /\ t.isStarter
  /\ LET out == IF t.pc = "load" THEN ZipLoaded(t) ELSE ZipEntryRead(t)
     IN CASE out.kind = "await" -> Suspend(t, out)
          [] out.kind = "throw" -> Catch(t, ZipErrorPrefix, out.message)
          [] out.kind = "done" -> InstallStarter(t, out.files)

\* the suspended call t of processSubmissionsZip resumes
processSubmissionsZip(t) ==
  /\ ~effectPending
  /\ t \in BagToSet(tasks)
  /\ ~t.isStarter
  /\ LET out == IF t.pc = "load" THEN SubmissionsLoaded(t) ELSE SubmissionRead(t)
     IN CASE out.kind = "await" -> Suspend(t, out)
          [] out.kind = "throw" -> Catch(t, SubmissionsErrorPrefix, out.message)
          [] out.kind = "done" -> InstallSubmissions(t, out.files)

\* a variant that stays on the last student instead of wrapping
NextIndexStopsAtEnd(currentIndex, length) ==
  IF currentIndex + 1 >= length THEN length - 1 ELSE currentIndex + 1

\* (currentIndex + 1) % students.length
NextIndex(currentIndex, length) == (currentIndex + 1) % length

\* the student handleNextStudent selects
NextStudent(submissions, student) ==
  LET students == ObjectKeys(submissions)
      currentIndex == IF student.tag = "string" THEN IndexOf(students, student.name) ELSE -1
  IN Str(students[NextIndex(currentIndex, Len(students)) + 1])

\* the Next Student button, rendered while the table has a key (line 220)
handleNextStudent ==
  /\ ~effectPending
  /\ Len(allSubmissions) > 0
  /\ currentStudent' = NextStudent(allSubmissions, currentStudent)
  /\ effectPending' = (currentStudent' # currentStudent)
  /\ lastOp' = Op("handleNextStudent", NoFile, "")
  /\ UNCHANGED <<starterFiles, allSubmissions, diffs, error, tasks>>

\* the Select, rendered while the table has a key: onValueChange={setCurrentStudent}
onValueChange(student) ==
  /\ ~effectPending
  /\ Len(allSubmissions) > 0
  /\ student \in KeySet(allSubmissions)
  /\ currentStudent' = Str(student)
  /\ effectPending' = (currentStudent' # currentStudent)
  /\ lastOp' = Op("onValueChange", NoFile, "")
  /\ UNCHANGED <<starterFiles, allSubmissions, diffs, error, tasks>>

\* lines 109-114
useEffect ==
  /\ effectPending
  /\ effectPending' = FALSE
  /\ diffs' = IF Len(starterFiles) > 0 /\ Truthy(currentStudent)
              THEN generateDiffs(starterFiles, allSubmissions, currentStudent, diffs)
              ELSE diffs
  /\ lastOp' = Op("useEffect", NoFile, "")
  /\ UNCHANGED <<starterFiles, allSubmissions, currentStudent, error, tasks>>

(***************************************************************************)
(* Paths and files of the inputs.                                          *)
(***************************************************************************)
APy == <<"a">> \o PY
BPy == <<"b">> \o PY
DirD == <<"d", "/">>
DirE == <<"e", "/">>
ReadmeMd == <<"r", ".", "m", "d">>
ReportTxt == <<"r", ".", "t", "x", "t">>
SZip == <<"s">> \o ZIP
Al == <<"a", "l">>
Bo == <<"b", "o">>
Cy == <<"c", "y">>
AlDir == Al \o <<"_", "1">> \o MARKER
BoDir == Bo \o <<"_", "2">> \o MARKER
CyDir == Cy \o <<"_", "3">> \o MARKER

StarterA == File(ZipMime, SZip, Zip(<<Entry(DirD \o APy, "x"), Entry(ReadmeMd, "r")>>))

StarterB == File("", SZip, Zip(<<Entry(MACOSX \o APy, "m"), Entry(BPy, "x")>>))

CorruptFile == File("", <<"c">> \o ZIP, CorruptZip)

TextFile == File("text/plain", ReportTxt, NoZip)

SubsA ==
  File(ZipMime, SZip,
       Zip(<<Entry(AlDir \o APy, "y"),
             ZipEntry(BoDir \o SZip, Zip(<<Entry(DirD \o BPy, "y")>>))>>))

SubsB == File(ZipMime, SZip, Zip(<<Entry(AlDir \o APy, "x")>>))

SubsBad ==
  File(ZipMime, SZip,
       Zip(<<Entry(AlDir \o APy, "y"), BadEntry(BoDir \o BPy)>>))

\* the drops: <<the file, whether it lands on the starter zone>>
Drops ==
  {<<StarterA, TRUE>>, <<StarterB, TRUE>>, <<SubsBad, TRUE>>, <<CorruptFile, TRUE>>,
   <<TextFile, TRUE>>, <<NoFile, FALSE>>,
   <<SubsA, FALSE>>, <<SubsB, FALSE>>, <<SubsBad, FALSE>>, <<CorruptFile, FALSE>>,
   <<StarterA, FALSE>>}

(***************************************************************************)
(* The component under every sequence of drops, selections and presses.    *)
(***************************************************************************)
Init ==
  /\ starterFiles = EmptyObject
  /\ allSubmissions = EmptyObject
  /\ currentStudent = Null
  /\ diffs = <<>>
  /\ error = <<>>
  /\ tasks = EmptyBag
  /\ effectPending = FALSE
  /\ lastOp = Op("mount", NoFile, "")

Next ==
  \/ \E drop \in Drops : handleDrop(drop[1], drop[2])
  \/ \E t \in BagToSet(tasks) : processZipFile(t)
  \/ \E t \in BagToSet(tasks) : processSubmissionsZip(t)
  \/ handleNextStudent
  \/ \E student \in KeySet(allSubmissions) : onValueChange(student)
  \/ useEffect

Spec == Init /\ [][Next]_vars

(***************************************************************************)
(* processZipFile on every archive of at most MaxEntries entries: the      *)
(* component right after the archive was dropped on the starter zone.      *)
(***************************************************************************)
\* the sequences of at most n entries of S with distinct paths (contents.files is
\* an object keyed by path)
ArchivesOf(S, n) ==
  {es \in UNION {[1..m -> S] : m \in 0..n} :
     \A i, j \in 1..Len(es) : es[i].path = es[j].path => i = j}

ExtractEntries ==
  {Entry(path, content) : path \in {DirD \o APy, DirE \o APy, BPy}, content \in {"x", "y"}}
    \cup {Entry(MACOSX \o APy, "m"), Entry(DirD \o ReadmeMd, "r"), DirEntry(DirD),
          BadEntry(DirD \o BPy)}

ExtractFiles ==
  {File(ZipMime, SZip, Zip(es)) : es \in ArchivesOf(ExtractEntries, MaxEntries)}
    \cup {CorruptFile}

InitExtract ==
  /\ starterFiles = EmptyObject
  /\ allSubmissions = EmptyObject
  /\ currentStudent = Null
  /\ diffs = <<>>
  /\ error = <<>>
  /\ \E file \in ExtractFiles :
       /\ tasks = SetToBag({Task(file, TRUE)})
       /\ lastOp = Op("handleDrop", file, "")
  /\ effectPending = FALSE

NextExtract ==
  \/ \E t \in BagToSet(tasks) : processZipFile(t)
  \/ useEffect

SpecExtract == InitExtract /\ [][NextExtract]_vars

(***************************************************************************)
(* processSubmissionsZip on every archive of at most MaxEntries entries:   *)
(* the component right after the archive was dropped on the submissions    *)
(* zone.                                                                   *)
(***************************************************************************)
InnerZips ==
  {Zip(<<Entry(DirD \o APy, "y"), Entry(BPy, "x")>>),
   Zip(<<Entry(MACOSX \o APy, "m"), Entry(ReadmeMd, "r")>>),
   Zip(<<Entry(BPy, "y"), BadEntry(APy)>>),
   CorruptZip}

GroupEntries ==
  {Entry(AlDir \o APy, content) : content \in {"x", "y"}}
    \cup {ZipEntry(AlDir \o SZip, inner) : inner \in InnerZips}
    \cup {Entry(BoDir \o DirD \o APy, "x"), Entry(BoDir \o ReportTxt, "r"),
          BadEntry(BoDir \o BPy), DirEntry(CyDir),
          Entry(AlDir \o ONLINETEXT \o PY, "o"), Entry(DirD \o APy, "x")}

GroupFiles ==
  {File(ZipMime, SZip, Zip(es)) : es \in ArchivesOf(GroupEntries, MaxEntries)}
    \cup {CorruptFile}

InitGroup ==
  /\ starterFiles = EmptyObject
  /\ allSubmissions = EmptyObject
  /\ currentStudent = Null
  /\ diffs = <<>>
  /\ error = <<>>
  /\ \E file \in GroupFiles :
       /\ tasks = SetToBag({Task(file, FALSE)})
       /\ lastOp = Op("handleDrop", file, "")
  /\ effectPending = FALSE

NextGroup ==
  \/ \E t \in BagToSet(tasks) : processSubmissionsZip(t)
  \/ useEffect

SpecGroup == InitGroup /\ [][NextGroup]_vars

(***************************************************************************)
(* generateDiffs on every pair of file sets of at most MaxKeys files: the  *)
(* component with the baseline as starterFiles and the candidate as the    *)
(* files of the selected student, the call of generateDiffs pending.       *)
(***************************************************************************)
\* the objects of at most n keys of K with values of V
ObjectsOf(K, V, n) ==
  {obj \in UNION {[1..m -> K \X V] : m \in 0..n} :
     \A i, j \in 1..Len(obj) : obj[i][1] = obj[j][1] => i = j}

FileSets == ObjectsOf({APy, BPy, <<"c">> \o PY}, {"", "x", "y"}, MaxKeys)

InitCmp ==
  /\ starterFiles \in FileSets
  /\ \E submissionFiles \in FileSets : allSubmissions = <<<<Al, submissionFiles>>>>
  /\ currentStudent = Str(Al)
  /\ diffs = <<>>
  /\ error = <<>>
  /\ tasks = EmptyBag
  /\ effectPending = TRUE
  /\ lastOp = Op("mount", NoFile, "")

\* generateDiffs() runs on the committed state
CallGenerateDiffs ==
  /\ effectPending
  /\ effectPending' = FALSE
  /\ diffs' = generateDiffs(starterFiles, allSubmissions, currentStudent, diffs)
  /\ lastOp' = Op("generateDiffs", NoFile, "")
  /\ UNCHANGED <<starterFiles, allSubmissions, currentStudent, error, tasks>>

NextCmp == CallGenerateDiffs

SpecCmp == InitCmp /\ [][NextCmp]_vars

(***************************************************************************)
(* The vocabulary of the claims, stated without the operators of the code. *)
(***************************************************************************)
\* sub occurs in s from position at + 1 on
OccursAt(s, sub, at) ==
  /\ at + Len(sub) <= Len(s)
  /\ \A k \in 1..Len(sub) : s[at + k] = sub[k]

HasPrefix(s, pre) == OccursAt(s, pre, 0)

HasSuffix(s, suf) == Len(suf) <= Len(s) /\ OccursAt(s, suf, Len(s) - Len(suf))

Contains(s, sub) == \E at \in 0..Len(s) : OccursAt(s, sub, at)

\* the last component of a path: its longest suffix without a '/'
LastComponent(path) ==
  CHOOSE c \in {SubSeq(path, n + 1, Len(path)) : n \in 0..Len(path)} :
    /\ \A i \in 1..Len(c) : c[i] # "/"
    /\ c = path \/ path[Len(path) - Len(c)] = "/"

\* the token before the first '_' of a path: its longest prefix without a '_'
SubmitterId(path) ==
  CHOOSE c \in {SubSeq(path, 1, n) : n \in 0..Len(path)} :
    /\ \A i \in 1..Len(c) : c[i] # "_"
    /\ c = path \/ path[Len(c) + 1] = "_"

\* the content of a path in a file set, an absent path counted as ''
TextOf(files, path) == IF path \in KeySet(files) THEN Lookup(files, path) ELSE ""

DistinctKeys(obj) == \A i, j \in 1..Len(obj) : obj[i][1] = obj[j][1] => i = j

\* the entries of an archive the extractor keeps
Kept(entries) ==
  {i \in 1..Len(entries) :
     /\ ~entries[i].dir
     /\ ~HasPrefix(entries[i].path, MACOSX)
     /\ HasSuffix(entries[i].path, PY)}

\* files is the FileSet of the archive: the last components of the kept entries,
\* each with the content of the last kept entry of that name
IsExtractionOf(files, entries) ==
  /\ DistinctKeys(files)
  /\ KeySet(files) = {LastComponent(entries[i].path) : i \in Kept(entries)}
  /\ \A i \in Kept(entries) :
       (\A j \in Kept(entries) :
          LastComponent(entries[j].path) = LastComponent(entries[i].path) => j <= i)
       => Lookup(files, LastComponent(entries[i].path)) = entries[i].content

\* the entries of a submissions archive the grouper considers
Considered(entries) ==
  {i \in 1..Len(entries) :
     /\ ~entries[i].dir
     /\ Contains(entries[i].path, MARKER)
     /\ ~Contains(entries[i].path, ONLINETEXT)}

\* the files a submitter's entries contribute, each with its place in the enumeration:
\* entry i itself (j = 0) when it is a .py, the kept entries j of its zip when it is a .zip
Contributions(entries, id) ==
  LET mine == {i \in Considered(entries) : SubmitterId(entries[i].path) = id}
  IN {[i |-> i, j |-> 0, name |-> LastComponent(entries[i].path),
       content |-> entries[i].content] :
        i \in {h \in mine : HasSuffix(entries[h].path, PY)}}
     \cup UNION {
       {[i |-> i, j |-> j, name |-> LastComponent(entries[i].inner.files[j].path),
         content |-> entries[i].inner.files[j].content] :
          j \in Kept(entries[i].inner.files)} :
       i \in {h \in mine : HasSuffix(entries[h].path, ZIP)}}

Later(c, d) == c.i > d.i \/ (c.i = d.i /\ c.j > d.j)

\* table is the SubmissionTable of the archive
IsGroupingOf(table, entries) ==
  /\ DistinctKeys(table)
  /\ \A id \in KeySet(table) :
       \E i \in Considered(entries) : SubmitterId(entries[i].path) = id
  /\ \A i \in Considered(entries) :
       HasSuffix(entries[i].path, PY) \/ HasSuffix(entries[i].path, ZIP)
       => SubmitterId(entries[i].path) \in KeySet(table)
  /\ \A id \in KeySet(table) :
       LET files == Lookup(table, id)
           given == Contributions(entries, id)
       IN /\ DistinctKeys(files)
          /\ KeySet(files) = {c.name : c \in given}
          /\ \A c \in given :
               (\A d \in given : d.name = c.name => ~Later(d, c))
               => Lookup(files, c.name) = c.content

\* a zip handler has just installed its result
Installed(op) == lastOp.op = op /\ lastOp.out = "done"

(***************************************************************************)
(* C1.  generateDiffs yields exactly one FileDiff for each path of the     *)
(* baseline or the candidate whose contents differ, an absent path counted *)
(* as empty content, and none for a path whose contents are equal; so a    *)
(* file set compared with itself yields no FileDiff.                       *)
(***************************************************************************)
C1_OneDiffPerDifferingPath ==
  lastOp.op = "generateDiffs" =>
    LET baseline == starterFiles
        candidate == Lookup(allSubmissions, currentStudent.name)
    IN /\ {diffs[i].path : i \in 1..Len(diffs)}
            = {path \in KeySet(baseline) \cup KeySet(candidate) :
                 TextOf(baseline, path) # TextOf(candidate, path)}
       /\ \A i, j \in 1..Len(diffs) : diffs[i].path = diffs[j].path => i = j
       /\ baseline = candidate => diffs = <<>>

\* a comparison with a changed file, an unchanged file and a file of one side only
C1_Witness ==
  /\ lastOp.op = "generateDiffs"
  /\ Len(diffs) = 2
  /\ \E path \in KeySet(starterFiles) :
       /\ path \in KeySet(Lookup(allSubmissions, currentStudent.name))
       /\ Lookup(starterFiles, path) = Lookup(Lookup(allSubmissions, currentStudent.name), path)
  /\ \E path \in KeySet(starterFiles) :
       /\ path \in KeySet(Lookup(allSubmissions, currentStudent.name))
       /\ Lookup(starterFiles, path) # Lookup(Lookup(allSubmissions, currentStudent.name), path)
  /\ \E path \in KeySet(Lookup(allSubmissions, currentStudent.name)) :
       path \notin KeySet(starterFiles)

(***************************************************************************)
(* C2 as stated.  The status of a FileDiff is "added" if the baseline      *)
(* lacks the path and the candidate has it, "removed" if the candidate     *)
(* lacks it and the baseline has it, and "modified" if both have it, also  *)
(* when one of them holds it with empty content.                           *)
(***************************************************************************)
C2_StatusByPresence ==
  lastOp.op = "generateDiffs" =>
    LET baseline == starterFiles
        candidate == Lookup(allSubmissions, currentStudent.name)
    IN \A i \in 1..Len(diffs) :
         LET inBaseline == diffs[i].path \in KeySet(baseline)
             inCandidate == diffs[i].path \in KeySet(candidate)
         IN diffs[i].status = IF ~inBaseline /\ inCandidate THEN "added"
                              ELSE IF inBaseline /\ ~inCandidate THEN "removed"
                              ELSE "modified"

(***************************************************************************)
(* C2 as amended.  The status of a FileDiff is "added" if the baseline     *)
(* lacks the path or holds it with empty content, "removed" if the         *)
(* baseline holds non-empty content and the candidate lacks the path or    *)
(* holds it with empty content, and "modified" if both hold non-empty      *)
(* content.                                                                *)
(***************************************************************************)
C2_StatusByContent ==
  lastOp.op = "generateDiffs" =>
    LET baseline == starterFiles
        candidate == Lookup(allSubmissions, currentStudent.name)
    IN \A i \in 1..Len(diffs) :
         LET old == TextOf(baseline, diffs[i].path)
             new == TextOf(candidate, diffs[i].path)
         IN /\ diffs[i].status = "added" <=> old = ""
            /\ diffs[i].status = "removed" <=> (old # "" /\ new = "")
            /\ diffs[i].status = "modified" <=> (old # "" /\ new # "")

\* both file sets have a path, one of them with empty content, next to a path
\* that only the baseline has
C2_Witness ==
  /\ lastOp.op = "generateDiffs"
  /\ \E i, j \in 1..Len(diffs) :
       /\ diffs[i].path \in KeySet(starterFiles)
       /\ diffs[i].path \in KeySet(Lookup(allSubmissions, currentStudent.name))
       /\ Lookup(starterFiles, diffs[i].path) = ""
       /\ diffs[i].status = "added"
       /\ diffs[j].path \notin KeySet(Lookup(allSubmissions, currentStudent.name))
       /\ diffs[j].status = "removed"

(***************************************************************************)
(* C3.  The FileSet processZipFile installs has as keys exactly the last   *)
(* path components of the entries that are no directories, do not start    *)
(* with __MACOSX/ and end in .py, each key with the content of the last    *)
(* such entry of that name.                                                *)
(***************************************************************************)
C3_ExtractedFileSet ==
  Installed("processZipFile") => IsExtractionOf(starterFiles, lastOp.file.zip.files)

\* an archive with two kept entries of one name and an entry that is not kept
C3_Witness ==
  /\ Installed("processZipFile")
  /\ LET entries == lastOp.file.zip.files
     IN /\ \E i, j \in Kept(entries) :
             /\ i < j
             /\ LastComponent(entries[i].path) = LastComponent(entries[j].path)
             /\ entries[i].content # entries[j].content
             /\ TextOf(starterFiles, LastComponent(entries[j].path)) = entries[j].content
        /\ \E i \in 1..Len(entries) : i \notin Kept(entries)

(***************************************************************************)
(* C4 as stated.  The SubmissionTable processSubmissionsZip installs holds *)
(* no SubmitterId whose FileSet is empty.                                  *)
(***************************************************************************)
C4_NoEmptySubmitter ==
  Installed("processSubmissionsZip") =>
    \A i \in 1..Len(allSubmissions) : allSubmissions[i][2] # EmptyObject

(***************************************************************************)
(* C5.  The SubmissionTable processSubmissionsZip installs is keyed by the *)
(* token before the first '_' of the non-directory entries whose path      *)
(* contains _assignsubmission_file/ and not _onlinetext, and holds for     *)
(* each SubmitterId the union of its .py entries and the kept .py entries  *)
(* of its nested zips, in enumeration order, a later file replacing an     *)
(* earlier one of the same name; no file of another submitter is in it.    *)
(***************************************************************************)
C5_GroupedSubmissions ==
  Installed("processSubmissionsZip") => IsGroupingOf(allSubmissions, lastOp.file.zip.files)

\* two submitters, one of them with a nested zip whose file replaces a direct one
C5_Witness ==
  /\ Installed("processSubmissionsZip")
  /\ Len(allSubmissions) = 2
  /\ \E id \in KeySet(allSubmissions) :
       \E c, d \in Contributions(lastOp.file.zip.files, id) :
         /\ c.j = 0
         /\ d.j > 0
         /\ d.i > c.i
         /\ c.name = d.name
         /\ c.content # d.content
         /\ Lookup(Lookup(allSubmissions, id), d.name) = d.content
         /\ Len(Lookup(allSubmissions, id)) = 2

(***************************************************************************)
(* C6.  A failed drop is surfaced as an error and installs nothing: when   *)
(* handleDrop is given a file that is no archive, and when a call of       *)
(* processZipFile or processSubmissionsZip ends on an archive that cannot  *)
(* be opened or has an entry that cannot be decoded, the error is          *)
(* non-empty afterwards and starterFiles, allSubmissions and               *)
(* currentStudent are what they were.                                      *)
(***************************************************************************)
NotAnArchive(file) ==
  ~file.present \/ (file.type # "application/zip" /\ ~HasSuffix(file.name, ZIP))

\* the archive cannot be opened, or an entry the handler reads cannot be decoded
CannotBeRead(zip, isStarter) ==
  \/ zip.corrupt
  \/ isStarter /\ \E i \in Kept(zip.files) : zip.files[i].bad
  \/ ~isStarter /\ \E i \in Considered(zip.files) :
       \/ HasSuffix(zip.files[i].path, PY) /\ zip.files[i].bad
       \/ /\ HasSuffix(zip.files[i].path, ZIP)
          /\ \/ zip.files[i].bad
             \/ zip.files[i].inner.corrupt
             \/ \E j \in Kept(zip.files[i].inner.files) : zip.files[i].inner.files[j].bad

InputsUntouched ==
  /\ starterFiles' = starterFiles
  /\ allSubmissions' = allSubmissions
  /\ currentStudent' = currentStudent

C6_FailedDropStep ==
  /\ (lastOp'.op = "handleDrop" /\ NotAnArchive(lastOp'.file))
       => (error' # <<>> /\ InputsUntouched /\ tasks' = tasks)
  /\ \A t \in BagToSet(tasks) :
       (tasks' = tasks (-) SetToBag({t}) /\ CannotBeRead(t.file.zip, t.isStarter))
         => (error' # <<>> /\ InputsUntouched)

\* C6: every step that ends a failed drop leaves a non-empty error and the inputs untouched
C6_FailedDropSurfaces == [][C6_FailedDropStep]_vars

\* a call has failed on an entry after reading others, with both inputs loaded
C6_Witness ==
  /\ lastOp.out = "throw"
  /\ ~lastOp.file.zip.corrupt
  /\ error # <<>>
  /\ starterFiles # EmptyObject
  /\ allSubmissions # EmptyObject

(***************************************************************************)
(* C7 as stated, for a starter FileSet that is not empty.  Once the        *)
(* pending effect has run, the stored diffs are those of the current       *)
(* starterFiles and the current files of the current student.  (With an    *)
(* empty starter FileSet the effect does not call generateDiffs at all.)   *)
(***************************************************************************)
C7_DiffsFollowInputs ==
  (~effectPending /\ Len(starterFiles) > 0 /\ Truthy(currentStudent)) =>
    diffs = generateDiffs(starterFiles, allSubmissions, currentStudent, diffs)

(***************************************************************************)
(* C8.  Under every interleaving of uploads, each value installed as       *)
(* starterFiles (as allSubmissions) is the FileSet (the SubmissionTable)   *)
(* of the one archive of the call that installs it, with nothing of a      *)
(* previous upload or of another upload in flight.                         *)
(***************************************************************************)
C8_InstallStep ==
  /\ (starterFiles' # starterFiles \/ Installed("processZipFile")') =>
       \E t \in BagToSet(tasks) :
         /\ t.isStarter
         /\ tasks' = tasks (-) SetToBag({t})
         /\ IsExtractionOf(starterFiles', t.file.zip.files)
  /\ (allSubmissions' # allSubmissions \/ Installed("processSubmissionsZip")') =>
       \E t \in BagToSet(tasks) :
         /\ ~t.isStarter
         /\ tasks' = tasks (-) SetToBag({t})
         /\ IsGroupingOf(allSubmissions', t.file.zip.files)

\* C8: every step that installs a FileSet or a SubmissionTable installs that of one archive
C8_WholesaleReplacement == [][C8_InstallStep]_vars

\* a re-upload is installed while another upload, partly extracted, is in flight
C8_Witness ==
  /\ Installed("processZipFile")
  /\ starterFiles # EmptyObject
  /\ \E t \in BagToSet(tasks) :
       /\ t.isStarter
       /\ t.pc = "entry"
       /\ t.files # EmptyObject
       /\ KeySet(t.files) \cap KeySet(starterFiles) = {}

(***************************************************************************)
(* C9.  After every handler, currentStudent is unset or a key of           *)
(* allSubmissions; handleNextStudent moves it to the next key of the       *)
(* table, from the last key to the first; and with k >= 1 submitters, k    *)
(* presses select every submitter once and end on the starting one.        *)
(***************************************************************************)
RECURSIVE Presses(_, _, _)
Presses(table, student, n) ==
  IF n = 0 THEN student ELSE Presses(table, NextStudent(table, student), n - 1)

C9_Selection ==
  currentStudent.tag = "string" =>
    /\ currentStudent.name \in KeySet(allSubmissions)
    /\ Presses(allSubmissions, currentStudent, Len(allSubmissions)) = currentStudent
    /\ {Presses(allSubmissions, currentStudent, n) : n \in 1..Len(allSubmissions)}
         = {Str(id) : id \in KeySet(allSubmissions)}

C9_NextStep ==
  /\ C9_Selection'
  /\ (lastOp'.op = "handleNextStudent" /\ currentStudent.tag = "string") =>
       LET students == ObjectKeys(allSubmissions)
           at == CHOOSE i \in 1..Len(students) : students[i] = currentStudent.name
       IN /\ allSubmissions' = allSubmissions
          /\ currentStudent' = Str(students[IF at = Len(students) THEN 1 ELSE at + 1])

\* C9: every step keeps the selection a key that cycles, and a press moves it to the next key
C9_NextStudentCycles == [][C9_NextStep]_vars

\* a press has wrapped from the last of several submitters to the first
C9_Witness ==
  /\ lastOp.op = "handleNextStudent"
  /\ Len(allSubmissions) >= 2
  /\ currentStudent = Str(ObjectKeys(allSubmissions)[1])

(***************************************************************************)
(* C10.  Once the error is non-empty, no later step empties it.            *)
(***************************************************************************)
C10_ErrorSticky == [][error # <<>> => error' # <<>>]_vars

\* a starter upload has succeeded after an error was shown
C10_Witness ==
  /\ error # <<>>
  /\ Installed("processZipFile")
  /\ starterFiles # EmptyObject

====
